---- MODULE Spec2Model ----
(***************************************************************************)
(* A model of decode_duid.py (src/decode/dec.py): the DUID decoder run on  *)
(* one command line.  One action per statement group of the script; the    *)
(* try/except of the decode stage is the action ExceptHandler.             *)
(* Strings are sequences of one-character strings, byte strings are        *)
(* sequences of 0..255.  -1 stands for a name that is not bound yet.        *)
(***************************************************************************)
EXTENDS Integers, Sequences, FiniteSets, TLC

VARIABLES
    argc,               \* len(sys.argv)
    duid_hex_string,    \* sys.argv[1]
    pc,                 \* the statement group the script is at
    duid_bytes,         \* the converted input
    total_duid_length,
    pos,                \* the read position of the stream `data`
    duid_type_code,
    variant,            \* the branch of the if/elif chain that was entered
    hw_type_code,
    time_val,
    enterprise_num,
    address_len,
    identifier_len,
    payload,            \* lla_bytes, identifier_bytes, uuid_bytes or remaining_bytes
    out,                \* the lines printed
    exc,                \* the exception raised inside the try block
    exit_code           \* the process exit status, -1 while running

input == <<argc, duid_hex_string, duid_bytes, total_duid_length>>
fields == <<hw_type_code, time_val, enterprise_num, address_len, identifier_len, payload>>
vars == <<input, pc, pos, duid_type_code, variant, fields, out, exc, exit_code>>

\* ------------------------------------------------------------ bounds
\* Longest free-form argument string (characters).
MaxStrLen == 4
\* Longest DUID body after the 2-byte type (bytes); 17 gives a 19-byte DUID.
MaxTail == 17

\* ------------------------------------------------------- text helpers
HexLower == <<"0","1","2","3","4","5","6","7","8","9","a","b","c","d","e","f">>
HexUpper == <<"0","1","2","3","4","5","6","7","8","9","A","B","C","D","E","F">>

\* ASCII whitespace, which bytes.fromhex skips between byte pairs.
IsSpace(c) == c \in {" ", "\t", "\n", "\r", "\f"}

\* The value of a digit character; 37 for a character that is no digit.
DigitValue(c) ==
    IF \E i \in 1..16 : HexLower[i] = c
    THEN (CHOOSE i \in 1..16 : HexLower[i] = c) - 1
    ELSE IF \E i \in 1..16 : HexUpper[i] = c
    THEN (CHOOSE i \in 1..16 : HexUpper[i] = c) - 1
    ELSE 37

\* str.replace(':', '')
RemoveColons(s) == SelectSeq(s, LAMBDA c : c # ":")

\* bytes.fromhex from position i on: whitespace is skipped before a pair,
\* the two digits of a pair are adjacent; anything else is a ValueError.
RECURSIVE FromHexAt(_, _, _)
FromHexAt(s, i, acc) ==
    IF i > Len(s) THEN [ok |-> TRUE, bytes |-> acc]
    ELSE IF IsSpace(s[i]) THEN FromHexAt(s, i + 1, acc)
    ELSE IF DigitValue(s[i]) >= 16 THEN [ok |-> FALSE, bytes |-> <<>>]
    ELSE IF i + 1 > Len(s) \/ DigitValue(s[i + 1]) >= 16
         THEN [ok |-> FALSE, bytes |-> <<>>]
    ELSE FromHexAt(s, i + 2, Append(acc, 16 * DigitValue(s[i]) + DigitValue(s[i + 1])))

FromHex(s) == FromHexAt(s, 1, <<>>)

\* bytes.hex(): two lower-case digits per byte.
RECURSIVE Hex(_)
Hex(bs) ==
    IF bs = <<>> THEN <<>>
    ELSE <<HexLower[(bs[1] \div 16) + 1], HexLower[(bs[1] % 16) + 1]>> \o Hex(Tail(bs))

\* f'0x{b.hex()}'
Hex0x(bs) == <<"0", "x">> \o Hex(bs)

\* ':'.join(h[i:i+2] for i in range(0, len(h), 2))
RECURSIVE ColonJoin(_)
ColonJoin(h) ==
    IF Len(h) <= 2 THEN h
    ELSE <<h[1], h[2], ":">> \o ColonJoin(SubSeq(h, 3, Len(h)))

\* str(uuid.UUID(bytes=b)): 8-4-4-4-12 lower-case hex digits.
UUIDStr(b) ==
    LET h == Hex(b)
    IN  SubSeq(h, 1, 8) \o <<"-">> \o SubSeq(h, 9, 12) \o <<"-">> \o SubSeq(h, 13, 16)
        \o <<"-">> \o SubSeq(h, 17, 20) \o <<"-">> \o SubSeq(h, 21, 32)

\* ------------------------------------------------------ stream helpers
MinOf(a, b) == IF a < b THEN a ELSE b

\* data.read(n) at position p: at most n bytes, fewer at the end of the buffer.
Read(bs, p, n) == SubSeq(bs, p + 1, MinOf(p + n, Len(bs)))

\* A mutant of ReadAll: the read starts one byte late.
ReadAll_late(bs, p) == SubSeq(bs, p + 2, Len(bs))

\* data.read(): everything from position p to the end.
ReadAll(bs, p) == SubSeq(bs, p + 1, Len(bs))

\* A mutant of UnpackH: the two bytes in little-endian order.
UnpackH_le(b) == IF Len(b) # 2 THEN -1 ELSE b[1] + 256 * b[2]

\* struct.unpack('!H', b)[0]; -1 when b is not 2 bytes long (struct.error).
UnpackH(b) == IF Len(b) # 2 THEN -1 ELSE 256 * b[1] + b[2]

\* An unsigned 32-bit value v is kept as its two 16-bit halves <<hi, lo>>,
\* v = 65536 * hi + lo, since TLC's integers are 32-bit signed.
Unbound32 == <<-1, -1>>

\* A mutant of UnpackI: the four bytes in little-endian order.
UnpackI_le(b) ==
    IF Len(b) # 4 THEN Unbound32
    ELSE <<b[3] + 256 * b[4], b[1] + 256 * b[2]>>

\* struct.unpack('!I', b)[0]; Unbound32 when b is not 4 bytes long (struct.error).
UnpackI(b) ==
    IF Len(b) # 4 THEN Unbound32
    ELSE <<256 * b[1] + b[2], 256 * b[3] + b[4]>>

\* ----------------------------------------------------------- inputs
Alphabet == {"0", "3", "a", "F", "g", ":", " "}

RECURSIVE StringsUpTo(_)
StringsUpTo(n) ==
    IF n = 0 THEN {<<>>}
    ELSE LET shorter == StringsUpTo(n - 1)
         IN  shorter \cup {Append(s, c) : s \in {t \in shorter : Len(t) = n - 1}, c \in Alphabet}

\* Every string over Alphabet of at most MaxStrLen characters.
ShortStrings == StringsUpTo(MaxStrLen)

TypeCodes == {0, 1, 2, 3, 4, 5, 256, 9999, 65535}
HwChoices == {1, 6, 256}
\* 0, 1, 86400, 2^31 and 2^32 - 1 as <<hi, lo>>.
TimeChoices == {<<0, 0>>, <<0, 1>>, <<1, 20864>>, <<32768, 0>>, <<65535, 65535>>}

BE16(v) == <<v \div 256, v % 256>>
BE32(v) == BE16(v[1]) \o BE16(v[2])

\* The bytes after the first six of a body: 11 22 33 ... (mod 256).
Filler(n) == [i \in 1..n |-> (17 * i) % 256]

\* A DUID of type t whose body is the first n bytes of hw, tm, filler.
DuidBytes(t, hw, tm, n) ==
    BE16(t) \o SubSeq(BE16(hw) \o BE32(tm) \o Filler(MaxTail + 1), 1, n)

\* How the argument is written: plain hex, colon-separated pairs, upper case,
\* space-separated pairs (one quoted argument).
Styles == {"plain", "colon", "upper", "space"}

RECURSIVE SpaceJoin(_)
SpaceJoin(h) ==
    IF Len(h) <= 2 THEN h
    ELSE <<h[1], h[2], " ">> \o SpaceJoin(SubSeq(h, 3, Len(h)))

RECURSIVE UpperHex(_)
UpperHex(bs) ==
    IF bs = <<>> THEN <<>>
    ELSE <<HexUpper[(bs[1] \div 16) + 1], HexUpper[(bs[1] % 16) + 1]>> \o UpperHex(Tail(bs))

Render(style, bs) ==
    CASE style = "plain" -> Hex(bs)
      [] style = "colon" -> ColonJoin(Hex(bs))
      [] style = "upper" -> UpperHex(bs)
      [] style = "space" -> SpaceJoin(Hex(bs))

DuidStrings ==
    {Render(st, DuidBytes(t, hw, tm, n)) :
        st \in Styles, t \in TypeCodes, hw \in HwChoices, tm \in TimeChoices, n \in 0..MaxTail}

Inputs == ShortStrings \cup DuidStrings

NoExc == [kind |-> "none", msg |-> "", nums |-> <<>>]

\* ------------------------------------------------------------- Init
\* len(sys.argv) is 1, 2 or 3; with one argument it is the DUID string.
Init ==
    /\ argc \in {1, 2, 3}
    /\ duid_hex_string \in (IF argc = 2 THEN Inputs ELSE {<<>>})
    /\ pc = "args"
    /\ duid_bytes = <<>>
    /\ total_duid_length = -1
    /\ pos = 0
    /\ duid_type_code = -1
    /\ variant = "none"
    /\ hw_type_code = -1
    /\ time_val = Unbound32
    /\ enterprise_num = Unbound32
    /\ address_len = -1
    /\ identifier_len = -1
    /\ payload = <<>>
    /\ out = <<>>
    /\ exc = NoExc
    /\ exit_code = -1

Line(label, text, tag) == [label |-> label, text |-> text, tag |-> tag]

\* sys.exit(1) outside the try block.
Exit1(label) ==
    /\ pc' = "exit"
    /\ exit_code' = 1
    /\ out' = Append(out, Line(label, <<>>, ""))

\* ------------------------------------------------------ the script
\* Lines 40-46.
ArgumentParsing ==
    /\ pc = "args"
    /\ IF argc # 2
       THEN Exit1("Usage")
       ELSE pc' = "convert" /\ UNCHANGED <<out, exit_code>>
    /\ UNCHANGED <<input, pos, duid_type_code, variant, fields, exc>>

\* Lines 49-55.
InputConversion ==
    /\ pc = "convert"
    /\ LET r == FromHex(RemoveColons(duid_hex_string))
       IN  IF ~r.ok
           THEN /\ Exit1("Error: Invalid hex string format provided")
                /\ UNCHANGED duid_bytes
           ELSE /\ duid_bytes' = r.bytes
                /\ pc' = "gate"
                /\ UNCHANGED <<out, exit_code>>
    /\ UNCHANGED <<argc, duid_hex_string, total_duid_length, pos, duid_type_code,
                   variant, fields, exc>>

\* Lines 57-66.
LengthGate ==
    /\ pc = "gate"
    /\ IF Len(duid_bytes) < 2
       THEN /\ Exit1("Error: DUID is too short")
            /\ UNCHANGED total_duid_length
       ELSE /\ total_duid_length' = Len(duid_bytes)
            /\ pc' = "type"
            /\ out' = Append(out, Line("Total DUID Length", <<>>, ""))
            /\ UNCHANGED exit_code
    /\ UNCHANGED <<argc, duid_hex_string, duid_bytes, pos, duid_type_code, variant,
                   fields, exc>>

\* ------------------------------------------------- the decode stage
\* raise inside the try block: control goes to the except clauses.
Raise(kind, msg, nums) ==
    /\ exc' = [kind |-> kind, msg |-> msg, nums |-> nums]
    /\ pc' = "except"

\* duid_types.get(code, 'Unknown')
duid_types(code) ==
    CASE code = 1 -> "DUID-LLT"
      [] code = 2 -> "DUID-EN"
      [] code = 3 -> "DUID-LL"
      [] code = 4 -> "DUID-UUID"
      [] OTHER -> "Unknown"

\* hw_types.get(code, 'Unknown')
hw_types(code) == IF code = 1 THEN "Ethernet" ELSE "Unknown"

\* Lines 69-73: the type field.
ReadType ==
    /\ pc = "type"
    /\ LET b == Read(duid_bytes, pos, 2)
       IN  /\ pos' = pos + Len(b)
           /\ IF Len(b) # 2
              THEN /\ Raise("struct.error", "unpack requires a buffer of 2 bytes", <<>>)
                   /\ UNCHANGED <<duid_type_code, out>>
              ELSE /\ duid_type_code' = UnpackH(b)
                   /\ out' = Append(out, Line("DUID Type", <<>>, duid_types(UnpackH(b))))
                   /\ pc' = "dispatch"
                   /\ UNCHANGED exc
    /\ UNCHANGED <<input, variant, fields, exit_code>>

\* A mutant of LLT_too_short: the 4-byte time field is left out of the minimum.
LLT_too_short_4(total) == total < 4

\* Line 77.
LLT_too_short(total) == total < 8

\* Line 114.
EN_too_short(total) == total < 6

\* Line 127.
LL_too_short(total) == total < 4

\* Line 146.
expected_len == 18

\* A mutant of UUID_length_mismatch: only a shorter input is refused.
UUID_length_mismatch_lt(total) == total < expected_len

\* Line 147.
UUID_length_mismatch(total) == total # expected_len

\* A mutant of LLT_address_len: the header length of the LL branch.
LLT_address_len_4(total) == total - 4

\* Line 102.
LLT_address_len(total) == total - 8

\* Line 120.
EN_identifier_len(total) == total - 6

\* Line 134.
LL_address_len(total) == total - 4

\* Lines 107-111 (and 139-143, the same text): the address line.
LinkLayerLine(hw, alen, lla_bytes) ==
    IF hw = 1 /\ alen = 6
    THEN Line("Link-layer Address", ColonJoin(Hex(lla_bytes)), "")
    ELSE Line("Link-layer Address", ColonJoin(Hex(lla_bytes)), "(Hex)")

\* Lines 76-81: the DUID-LLT branch up to the hardware type.
DecodeLLT_HwType ==
    /\ pc = "dispatch"
    /\ duid_type_code = 1
    /\ variant' = "LLT"
    /\ IF LLT_too_short(total_duid_length)
       THEN /\ Raise("ValueError", "DUID-LLT is too short for fixed fields", <<>>)
            /\ UNCHANGED <<pos, hw_type_code, out>>
       ELSE LET b == Read(duid_bytes, pos, 2)
            IN  /\ pos' = pos + Len(b)
                /\ IF Len(b) # 2
                   THEN /\ Raise("struct.error", "unpack requires a buffer of 2 bytes", <<>>)
                        /\ UNCHANGED <<hw_type_code, out>>
                   ELSE /\ hw_type_code' = UnpackH(b)
                        /\ out' = Append(out, Line("Hardware Type", <<>>, hw_types(UnpackH(b))))
                        /\ pc' = "llt_time"
                        /\ UNCHANGED exc
    /\ UNCHANGED <<input, duid_type_code, time_val, enterprise_num, address_len,
                   identifier_len, payload, exit_code>>

\* Lines 83-84: the time field.
DecodeLLT_Time ==
    /\ pc = "llt_time"
    /\ LET b == Read(duid_bytes, pos, 4)
       IN  /\ pos' = pos + Len(b)
           /\ IF Len(b) # 4
              THEN /\ Raise("struct.error", "unpack requires a buffer of 4 bytes", <<>>)
                   /\ UNCHANGED <<time_val, out>>
              ELSE /\ time_val' = UnpackI(b)
                   /\ out' = Append(out, Line("Seconds since 2000", <<>>, ""))
                   /\ pc' = "llt_timestamp"
                   /\ UNCHANGED exc
    /\ UNCHANGED <<input, duid_type_code, variant, hw_type_code, enterprise_num,
                   address_len, identifier_len, payload, exit_code>>

\* The days before 1 January of year y in the proleptic Gregorian calendar.
DaysBeforeYear(y) ==
    LET p == y - 1 IN p * 365 + (p \div 4) - (p \div 100) + (p \div 400)

\* Line 89: datetime(2000, 1, 1) as a day ordinal (1 is 0001-01-01).
duid_epoch == DaysBeforeYear(2000) + 1

\* The last day a datetime can hold, 9999-12-31.
MaxOrdinal == DaysBeforeYear(10000)

\* timedelta(seconds=v) for v = 65536*hi + lo: whole days and the seconds left.
\* 86400 = 675 * 128 and 65536 = 512 * 128.
TimedeltaDays(v) == (v[1] * 512 + (v[2] \div 128)) \div 675
TimedeltaSeconds(v) == ((v[1] * 512 + (v[2] \div 128)) % 675) * 128 + (v[2] % 128)

\* Line 91: duid_epoch + timedelta raises OverflowError past datetime.max.
TimestampOverflows(v) == duid_epoch + TimedeltaDays(v) > MaxOrdinal

\* Lines 86-99: the timestamp, or a warning; neither leaves the branch.
DecodeLLT_Timestamp ==
    /\ pc = "llt_timestamp"
    /\ IF TimestampOverflows(time_val)
       THEN out' = Append(out, Line("Warning: time_val is too large", <<>>, ""))
       ELSE out' = Append(out, [label |-> "Calculated Timestamp (UTC)", text |-> <<>>,
                                tag |-> "",
                                day |-> duid_epoch + TimedeltaDays(time_val),
                                second |-> TimedeltaSeconds(time_val)])
    /\ pc' = "llt_address"
    /\ UNCHANGED <<input, pos, duid_type_code, variant, fields, exc, exit_code>>

\* Lines 101-111: the link-layer address of DUID-LLT.
DecodeLLT_Address ==
    /\ pc = "llt_address"
    /\ address_len' = LLT_address_len(total_duid_length)
    /\ IF address_len' < 0
       THEN /\ Raise("ValueError", "Calculated negative address length for DUID-LLT", <<>>)
            /\ UNCHANGED <<pos, payload, out>>
       ELSE LET lla_bytes == Read(duid_bytes, pos, address_len')
            IN  /\ pos' = pos + Len(lla_bytes)
                /\ payload' = lla_bytes
                /\ out' = Append(out, LinkLayerLine(hw_type_code, address_len', lla_bytes))
                /\ pc' = "sanity"
                /\ UNCHANGED exc
    /\ UNCHANGED <<input, duid_type_code, variant, hw_type_code, time_val,
                   enterprise_num, identifier_len, exit_code>>

\* Lines 113-124: the DUID-EN branch.
DecodeEN ==
    /\ pc = "dispatch"
    /\ duid_type_code = 2
    /\ variant' = "EN"
    /\ IF EN_too_short(total_duid_length)
       THEN /\ Raise("ValueError", "DUID-EN is too short for fixed fields", <<>>)
            /\ UNCHANGED <<pos, enterprise_num, identifier_len, payload, out>>
       ELSE LET b == Read(duid_bytes, pos, 4)
                ilen == EN_identifier_len(total_duid_length)
                identifier_bytes == Read(duid_bytes, pos + Len(b), ilen)
            IN  IF Len(b) # 4
                THEN /\ Raise("struct.error", "unpack requires a buffer of 4 bytes", <<>>)
                     /\ pos' = pos + Len(b)
                     /\ UNCHANGED <<enterprise_num, identifier_len, payload, out>>
                ELSE /\ enterprise_num' = UnpackI(b)
                     /\ identifier_len' = ilen
                     /\ IF ilen < 0
                        THEN /\ Raise("ValueError",
                                      "Calculated negative identifier length for DUID-EN", <<>>)
                             /\ pos' = pos + Len(b)
                             /\ out' = Append(out, Line("Enterprise Number", <<>>, ""))
                             /\ UNCHANGED payload
                        ELSE /\ pos' = pos + Len(b) + Len(identifier_bytes)
                             /\ payload' = identifier_bytes
                             /\ out' = out \o <<Line("Enterprise Number", <<>>, ""),
                                                Line("Identifier", Hex0x(identifier_bytes), "")>>
                             /\ pc' = "sanity"
                             /\ UNCHANGED exc
    /\ UNCHANGED <<input, duid_type_code, hw_type_code, time_val, address_len, exit_code>>

\* Lines 126-143: the DUID-LL branch.
DecodeLL ==
    /\ pc = "dispatch"
    /\ duid_type_code = 3
    /\ variant' = "LL"
    /\ IF LL_too_short(total_duid_length)
       THEN /\ Raise("ValueError", "DUID-LL is too short for fixed fields", <<>>)
            /\ UNCHANGED <<pos, hw_type_code, address_len, payload, out>>
       ELSE LET b == Read(duid_bytes, pos, 2)
                alen == LL_address_len(total_duid_length)
                lla_bytes == Read(duid_bytes, pos + Len(b), alen)
            IN  IF Len(b) # 2
                THEN /\ Raise("struct.error", "unpack requires a buffer of 2 bytes", <<>>)
                     /\ pos' = pos + Len(b)
                     /\ UNCHANGED <<hw_type_code, address_len, payload, out>>
                ELSE /\ hw_type_code' = UnpackH(b)
                     /\ address_len' = alen
                     /\ IF alen < 0
                        THEN /\ Raise("ValueError",
                                      "Calculated negative address length for DUID-LL", <<>>)
                             /\ pos' = pos + Len(b)
                             /\ out' = Append(out, Line("Hardware Type", <<>>,
                                                        hw_types(UnpackH(b))))
                             /\ UNCHANGED payload
                        ELSE /\ pos' = pos + Len(b) + Len(lla_bytes)
                             /\ payload' = lla_bytes
                             /\ out' = out \o <<Line("Hardware Type", <<>>, hw_types(UnpackH(b))),
                                                LinkLayerLine(UnpackH(b), alen, lla_bytes)>>
                             /\ pc' = "sanity"
                             /\ UNCHANGED exc
    /\ UNCHANGED <<input, duid_type_code, time_val, enterprise_num, identifier_len,
                   exit_code>>

\* Lines 145-154: the DUID-UUID branch.  uuid.UUID(bytes=b) raises ValueError
\* unless b is 16 bytes long.
DecodeUUID ==
    /\ pc = "dispatch"
    /\ duid_type_code = 4
    /\ variant' = "UUID"
    /\ IF UUID_length_mismatch(total_duid_length)
       THEN /\ Raise("ValueError", "DUID-UUID must be exactly N bytes long, found M",
                     <<expected_len, total_duid_length>>)
            /\ UNCHANGED <<pos, payload, out>>
       ELSE LET uuid_bytes == Read(duid_bytes, pos, 16)
            IN  /\ pos' = pos + Len(uuid_bytes)
                /\ payload' = uuid_bytes
                /\ IF Len(uuid_bytes) # 16
                   THEN /\ Raise("ValueError", "bytes is not a 16-char string", <<>>)
                        /\ UNCHANGED out
                   ELSE /\ out' = Append(out, Line("UUID", UUIDStr(uuid_bytes), ""))
                        /\ pc' = "sanity"
                        /\ UNCHANGED exc
    /\ UNCHANGED <<input, duid_type_code, hw_type_code, time_val, enterprise_num,
                   address_len, identifier_len, exit_code>>

\* Lines 156-161: any other type.
DecodeUnknown ==
    /\ pc = "dispatch"
    /\ duid_type_code \notin {1, 2, 3, 4}
    /\ variant' = "Unknown"
    /\ LET remaining_bytes == ReadAll(duid_bytes, pos)
       IN  /\ pos' = Len(duid_bytes)
           /\ payload' = remaining_bytes
           /\ out' = out \o <<Line("Unknown DUID Type. Unable to decode further.", <<>>, "")>>
                         \o (IF remaining_bytes # <<>>
                             THEN <<Line("Remaining undecoded data", Hex0x(remaining_bytes), "")>>
                             ELSE <<>>)
    /\ pc' = "sanity"
    /\ UNCHANGED <<input, duid_type_code, hw_type_code, time_val, enterprise_num,
                   address_len, identifier_len, exc, exit_code>>

\* Lines 163-173: the except clauses; each prints the details and exits with 1.
ExceptHandler ==
    /\ pc = "except"
    /\ out' = out \o <<Line(CASE exc.kind = "struct.error" -> "Error: Could not unpack data"
                              [] exc.kind = "ValueError" -> "Error: Invalid DUID data"
                              [] OTHER -> "An unexpected error occurred", <<>>, ""),
                       [label |-> "Details", text |-> <<>>, tag |-> exc.msg,
                        nums |-> exc.nums]>>
    /\ exit_code' = 1
    /\ pc' = "exit"
    /\ UNCHANGED <<input, pos, duid_type_code, variant, fields, exc>>

\* Lines 175-179: what is left in the stream after a decode that did not raise;
\* the script then ends, with exit status 0.
TrailingCheck ==
    /\ pc = "sanity"
    /\ LET remaining_bytes == ReadAll(duid_bytes, pos)
       IN  /\ pos' = Len(duid_bytes)
           /\ out' = IF remaining_bytes # <<>>
                     THEN Append(out, Line("Warning: bytes remaining in the input",
                                           Hex0x(remaining_bytes), ""))
                     ELSE out
    /\ exit_code' = 0
    /\ pc' = "done"
    /\ UNCHANGED <<input, duid_type_code, variant, fields, exc>>

Next ==
    \/ ArgumentParsing
    \/ InputConversion
    \/ LengthGate
    \/ ReadType
    \/ DecodeLLT_HwType
    \/ DecodeLLT_Time
    \/ DecodeLLT_Timestamp
    \/ DecodeLLT_Address
    \/ DecodeEN
    \/ DecodeLL
    \/ DecodeUUID
    \/ DecodeUnknown
    \/ ExceptHandler
    \/ TrailingCheck

Spec == Init /\ [][Next]_vars

\* ------------------------------------------------------- properties
Terminated == pc \in {"exit", "done"}

\* The decode stage was entered: the input had at least 2 bytes.
Decoding == total_duid_length >= 2

\* The first two input bytes as a big-endian unsigned 16-bit number.
Discriminant == 256 * duid_bytes[1] + duid_bytes[2]

HexChars == {HexLower[i] : i \in 1..16} \cup {HexUpper[i] : i \in 1..16}

\* Malformed as the specification words it: after the colons are removed, a
\* character outside [0-9a-fA-F], or an odd number of characters.
Malformed(s) ==
    LET t == RemoveColons(s)
    IN  (\E i \in 1..Len(t) : t[i] \notin HexChars) \/ Len(t) % 2 = 1

\* The script ended at the malformed-hex exit of lines 52-55.
HexErrorExit ==
    /\ pc = "exit"
    /\ out # <<>>
    /\ out[Len(out)].label = "Error: Invalid hex string format provided"

TooShortExit ==
    /\ pc = "exit"
    /\ out # <<>>
    /\ out[Len(out)].label = "Error: DUID is too short"

MinLength(d) == CASE d = 1 -> 8 [] d = 2 -> 6 [] d = 3 -> 4

TooShortMsg(d) ==
    CASE d = 1 -> "DUID-LLT is too short for fixed fields"
      [] d = 2 -> "DUID-EN is too short for fixed fields"
      [] d = 3 -> "DUID-LL is too short for fixed fields"

LengthMessages ==
    {TooShortMsg(1), TooShortMsg(2), TooShortMsg(3),
     "DUID-UUID must be exactly N bytes long, found M"}

\* The exception raised is one of the four length violations.
LengthViolation == exc.kind = "ValueError" /\ exc.msg \in LengthMessages

LinesLabelled(label) == SelectSeq(out, LAMBDA l : l.label = label)

\* C1: for an input of at least 2 bytes with discriminant 1, 2 or 3, the run
\* ends with exit status 1 exactly when the total length is below the
\* variant's minimum (8, 6, 4); the failure is the ValueError of the length
\* check, raised with the stream still right after the type field and no
\* field of the variant bound, and a run that succeeds has its fixed fields
\* at full width.
C1_MinLengthFailure ==
    (Terminated /\ Decoding /\ Discriminant \in {1, 2, 3}) =>
        /\ exit_code \in {0, 1}
        /\ (exit_code = 1) <=> (Len(duid_bytes) < MinLength(Discriminant))
        /\ (exit_code = 1) =>
              /\ exc = [kind |-> "ValueError", msg |-> TooShortMsg(Discriminant),
                        nums |-> <<>>]
              /\ pos = 2
              /\ hw_type_code = -1
              /\ time_val = Unbound32
              /\ enterprise_num = Unbound32
              /\ payload = <<>>
        /\ (exit_code = 0) =>
              /\ exc = NoExc
              /\ Discriminant \in {1, 3} =>
                    hw_type_code = 256 * duid_bytes[3] + duid_bytes[4]
              /\ Discriminant = 1 =>
                    time_val = <<256 * duid_bytes[5] + duid_bytes[6],
                                 256 * duid_bytes[7] + duid_bytes[8]>>
              /\ Discriminant = 2 =>
                    enterprise_num = <<256 * duid_bytes[3] + duid_bytes[4],
                                       256 * duid_bytes[5] + duid_bytes[6]>>

\* A 7-byte DUID-LLT has been refused by the length check.
C1_Witness ==
    /\ pc = "exit"
    /\ variant = "LLT"
    /\ Len(duid_bytes) = 7
    /\ exc.kind = "ValueError"
    /\ exit_code = 1

\* C2: with discriminant 4 the run succeeds exactly when the input is 18
\* bytes long; any other length ends in the exact-length ValueError, which
\* carries 18 and the actual length; on success the UUID is made of the 16
\* bytes after the type field.
C2_UUIDExactLength ==
    (Terminated /\ Decoding /\ Discriminant = 4) =>
        /\ exit_code \in {0, 1}
        /\ (exit_code = 0) <=> (Len(duid_bytes) = 18)
        /\ (exit_code = 1) =>
              /\ exc = [kind |-> "ValueError",
                        msg |-> "DUID-UUID must be exactly N bytes long, found M",
                        nums |-> <<18, Len(duid_bytes)>>]
              /\ pos = 2
              /\ payload = <<>>
        /\ (exit_code = 0) =>
              /\ exc = NoExc
              /\ payload = SubSeq(duid_bytes, 3, 18)
              /\ Len(LinesLabelled("UUID")) = 1
              /\ FromHex(SelectSeq(LinesLabelled("UUID")[1].text,
                                   LAMBDA c : c # "-")).bytes = SubSeq(duid_bytes, 3, 18)

\* An 18-byte DUID-UUID has been decoded.
C2_Witness ==
    /\ pc = "done"
    /\ variant = "UUID"
    /\ Len(duid_bytes) = 18
    /\ Len(payload) = 16
    /\ exit_code = 0

\* The hex digits of the raw-hex line of the unknown-type branch (after its
\* "0x"), empty when the line was not printed.
RawOutput ==
    LET ls == LinesLabelled("Remaining undecoded data")
    IN  IF ls = <<>> THEN <<>> ELSE SubSeq(ls[1].text, 3, Len(ls[1].text))

\* C3: with a discriminant outside {1, 2, 3, 4} the run always ends with exit
\* status 0 and no exception, whatever the length, and the raw hex printed
\* spells exactly the bytes after the 2-byte type field, in order.
C3_UnknownTypeSucceeds ==
    (Terminated /\ Decoding /\ Discriminant \notin {1, 2, 3, 4}) =>
        /\ exit_code = 0
        /\ exc = NoExc
        /\ variant = "Unknown"
        /\ payload = SubSeq(duid_bytes, 3, Len(duid_bytes))
        /\ FromHex(RawOutput).ok
        /\ FromHex(RawOutput).bytes = SubSeq(duid_bytes, 3, Len(duid_bytes))
        /\ Len(RawOutput) = 2 * (Len(duid_bytes) - 2)

\* An unknown type with at least three bytes after the type field was decoded.
C3_Witness ==
    /\ pc = "done"
    /\ variant = "Unknown"
    /\ Len(duid_bytes) >= 5
    /\ RawOutput # <<>>
    /\ exit_code = 0

\* C4: the exit status is 1 exactly when the argument count is wrong, the hex
\* string is malformed (a character outside [0-9a-fA-F] after colon removal,
\* or odd length), the byte sequence has fewer than 2 bytes, or the decoder
\* raised a minimum-length or exact-length violation; otherwise it is 0.
C4_ExitCodeCases ==
    Terminated =>
        /\ exit_code \in {0, 1}
        /\ (exit_code = 1) <=>
              \/ argc # 2
              \/ Malformed(duid_hex_string)
              \/ Len(RemoveColons(duid_hex_string)) \div 2 < 2
              \/ LengthViolation

\* The address line of a decoded DUID-LLT or DUID-LL.
AddressLine == LinesLabelled("Link-layer Address")[1]

\* C5: a decoded DUID-LLT or DUID-LL shows its link-layer address as
\* colon-separated hex pairs when the hardware type is 1 and the address has
\* 6 bytes, and otherwise as plain hex without colons, tagged.
C5_AddressRendering ==
    (pc = "done" /\ variant \in {"LLT", "LL"}) =>
        IF hw_type_code = 1 /\ Len(payload) = 6
        THEN AddressLine.text = ColonJoin(Hex(payload)) /\ AddressLine.tag = ""
        ELSE AddressLine.text = Hex(payload) /\ AddressLine.tag # ""

\* C6: every length violation raised by the decoder carries the expected
\* (minimum or exact) length and the actual total length.
C6_FailureCarriesLengths ==
    LengthViolation =>
        exc.nums = <<(IF Discriminant = 4 THEN 18 ELSE MinLength(Discriminant)),
                     Len(duid_bytes)>>

\* C7: once the conversion has run, the script has left by the malformed-hex
\* exit exactly when the argument, colons removed, has a character outside
\* [0-9a-fA-F] or an odd length; bytes are produced only otherwise.
C7_MalformedHexRejected ==
    (argc = 2 /\ pc \notin {"args", "convert"}) =>
        (HexErrorExit <=> Malformed(duid_hex_string))

VariantFor(d) ==
    CASE d = 1 -> "LLT"
      [] d = 2 -> "EN"
      [] d = 3 -> "LL"
      [] d = 4 -> "UUID"
      [] OTHER -> "Unknown"

\* C8: the type code read is 256 * byte[0] + byte[1], the branch entered is
\* the one that value alone selects, and a byte sequence shorter than 2 bytes
\* leaves by the too-short exit with nothing read and no branch entered.
C8_Discriminant ==
    /\ duid_type_code # -1 => duid_type_code = Discriminant
    /\ variant # "none" => variant = VariantFor(Discriminant)
    /\ pc \in {"llt_time", "llt_timestamp", "llt_address", "sanity", "done", "except"}
          => variant # "none"
    /\ (Terminated /\ argc = 2 /\ ~HexErrorExit /\ Len(duid_bytes) < 2) =>
          /\ TooShortExit
          /\ exit_code = 1
          /\ pos = 0
          /\ duid_type_code = -1
          /\ variant = "none"
          /\ exc = NoExc

\* The bytes 01 00 were read as type 256 and took the unknown-type branch.
C8_Witness ==
    /\ variant = "Unknown"
    /\ duid_bytes[1] = 1
    /\ duid_bytes[2] = 0
    /\ duid_type_code = 256

\* C9: a DUID-LLT of at least 8 bytes is decoded with exit status 0 for every
\* time offset; the offset reported is the big-endian value of bytes 4..7, no
\* exception leaves the timestamp step, one of the timestamp line and the
\* warning line is printed, and the address is decoded after it.
C9_LLTTimeOffset ==
    (Decoding /\ Discriminant = 1 /\ Len(duid_bytes) >= 8) =>
        /\ exc = NoExc
        /\ pc # "except"
        /\ Terminated =>
              /\ exit_code = 0
              /\ time_val = <<256 * duid_bytes[5] + duid_bytes[6],
                              256 * duid_bytes[7] + duid_bytes[8]>>
              /\ Len(LinesLabelled("Calculated Timestamp (UTC)"))
                    + Len(LinesLabelled("Warning: time_val is too large")) = 1
              /\ Len(LinesLabelled("Link-layer Address")) = 1
              /\ payload = SubSeq(duid_bytes, 9, Len(duid_bytes))

\* A DUID-LLT carrying the largest time offset, 2^32 - 1, was decoded.
C9_Witness ==
    /\ pc = "done"
    /\ variant = "LLT"
    /\ time_val = <<65535, 65535>>
    /\ Len(payload) > 0
    /\ exit_code = 0

\* C10: a decode that raised nothing has consumed the whole input: the
\* trailing length is total - 8, - 6 or - 4 and not negative, UUID and unknown
\* types read the whole remainder, the read position is the total length,
\* the negative-length errors are never raised and the trailing-data warning
\* is never printed.
C10_ExactConsumption ==
    /\ exc.msg \notin {"Calculated negative address length for DUID-LLT",
                       "Calculated negative identifier length for DUID-EN",
                       "Calculated negative address length for DUID-LL"}
    /\ pc \in {"sanity", "done"} =>
          /\ pos = total_duid_length
          /\ payload = SubSeq(duid_bytes, total_duid_length - Len(payload) + 1,
                              total_duid_length)
          /\ variant = "LLT" =>
                address_len = total_duid_length - 8 /\ address_len >= 0
                    /\ Len(payload) = address_len
          /\ variant = "EN" =>
                identifier_len = total_duid_length - 6 /\ identifier_len >= 0
                    /\ Len(payload) = identifier_len
          /\ variant = "LL" =>
                address_len = total_duid_length - 4 /\ address_len >= 0
                    /\ Len(payload) = address_len
          /\ variant \in {"UUID", "Unknown"} => Len(payload) = total_duid_length - 2
    /\ pc = "done" => LinesLabelled("Warning: bytes remaining in the input") = <<>>

\* A DUID-LLT with a 6-byte address was decoded to the end of the input.
C10_Witness ==
    /\ pc = "done"
    /\ variant = "LLT"
    /\ address_len = 6
    /\ pos = 14
====
